---------------------------- MODULE Spec2Model ----------------------------
(***************************************************************************)
(* Retrieval and reranking pipeline of the Rex assistant:                  *)
(*   retriever_bm25.py  build_index / load_index / retrieve                *)
(*   main.py            startup, rerank_candidates, on_text                *)
(*   rag_pipeline.py    _ensure_loaded, build_rag_prompt                   *)
(*                                                                         *)
(* Strings are sequences of one-character strings.  Scores are Python      *)
(* floats in the code; here they are fixed-point integers in units of      *)
(* 1e-6 (Micro), with natural logarithms taken from a table.               *)
(***************************************************************************)
EXTENDS Integers, Sequences, FiniteSets, TLC

(***************************************************************************)
(* Bounds of the model                                                     *)
(***************************************************************************)
\* longest corpus file, in JSONL lines
MaxDocs == 3
\* largest value of the BM25_TOPK environment setting
MaxTopK == 3
\* most pickle.load calls of rag_pipeline that are followed
MaxLoads == 3
\* the most deliveries of one update to handlers.on_text
MaxDeliveries == 2
\* the latest value of the monotonic clock, in ticks
MaxClock == 6

(***************************************************************************)
(* Strings                                                                 *)
(***************************************************************************)
\* str.isspace() of one character (only the blank occurs in the model)
IsSpace(c) == c = " "

\* str.lower() of one character
LowerChar(c) ==
  CASE c = "A" -> "a"
    [] c = "B" -> "b"
    [] c = "C" -> "c"
    [] OTHER -> c

\* str.lower()
Lower(s) == [i \in 1..Len(s) |-> LowerChar(s[i])]

\* str.strip() is the empty string
StripIsEmpty(s) == \A i \in 1..Len(s) : IsSpace(s[i])

\* the first index >= i of s holding a non-blank, or Len(s)+1
RECURSIVE SkipSpace(_, _)
SkipSpace(s, i) ==
  IF i > Len(s) \/ ~IsSpace(s[i]) THEN i ELSE SkipSpace(s, i + 1)

\* the first index >= i of s holding a blank, or Len(s)+1
RECURSIVE SkipWord(_, _)
SkipWord(s, i) ==
  IF i > Len(s) \/ IsSpace(s[i]) THEN i ELSE SkipWord(s, i + 1)

\* str.split() with no argument, from index i: runs of whitespace separate
\* the words, leading and trailing whitespace yields no empty word
RECURSIVE SplitFrom(_, _)
SplitFrom(s, i) ==
  LET b == SkipSpace(s, i)
      e == SkipWord(s, b)
  IN IF b > Len(s) THEN << >>
     ELSE << SubSeq(s, b, e - 1) >> \o SplitFrom(s, e)

Split(s) == SplitFrom(s, 1)

\* retriever_bm25._tokenize: s.lower().split()
_tokenize(s) == Split(Lower(s))

\* Python's seq[:k]
Slice(s, k) ==
  IF k >= 0
    THEN SubSeq(s, 1, IF k < Len(s) THEN k ELSE Len(s))
    ELSE SubSeq(s, 1, IF Len(s) + k > 0 THEN Len(s) + k ELSE 0)

\* the elements of a sequence
Range(s) == {s[i] : i \in 1..Len(s)}

\* sum of f[i] over 1..n
RECURSIVE SumTo(_, _)
SumTo(f, n) == IF n = 0 THEN 0 ELSE f[n] + SumTo(f, n - 1)

\* number of occurrences of word w in the token list toks
Count(toks, w) == Cardinality({i \in 1..Len(toks) : toks[i] = w})

(***************************************************************************)
(* rank_bm25.BM25Okapi, as constructed by build_index and queried by       *)
(* retrieve (k1 = 1.5, b = 0.75, epsilon = 0.25, the library defaults)     *)
(***************************************************************************)
\* ln(k) * Micro for the odd k that 2*(N - n) + 1 and 2*n + 1 take
LnMicro(k) ==
  CASE k = 1  -> 0
    [] k = 3  -> 1098612
    [] k = 5  -> 1609438
    [] k = 7  -> 1945910
    [] k = 9  -> 2197225
    [] k = 11 -> 2397895
    [] k = 13 -> 2564949

\* math.log(corpus_size - freq + 0.5) - math.log(freq + 0.5)
\*   = ln(2*(corpus_size - freq) + 1) - ln(2*freq + 1)
RawIdf(corpus_size, freq) ==
  LnMicro(2 * (corpus_size - freq) + 1) - LnMicro(2 * freq + 1)

\* sum of g[w] over the finite set ws
RECURSIVE SumOver(_, _)
SumOver(g, ws) ==
  IF ws = {} THEN 0
  ELSE LET w == CHOOSE x \in ws : TRUE
       IN g[w] + SumOver(g, ws \ {w})

\* BM25Okapi(tokenized): the state the constructor leaves in the object.
\* Called with a non-empty corpus only (an empty one divides by zero).
BM25Okapi(tokenized) ==
  LET n     == Len(tokenized)
      words == UNION {Range(tokenized[i]) : i \in 1..n}
      nd    == [w \in words |->
                  Cardinality({i \in 1..n : w \in Range(tokenized[i])})]
      raw   == [w \in words |-> RawIdf(n, nd[w])]
      \* average_idf = idf_sum / len(idf); eps = epsilon * average_idf
      eps   == IF words = {} THEN 0
               ELSE (SumOver(raw, words) \div Cardinality(words)) \div 4
  IN [corpus_size |-> n,
      doc_len     |-> [i \in 1..n |-> Len(tokenized[i])],
      num_doc     |-> SumTo([i \in 1..n |-> Len(tokenized[i])], n),
      doc_freqs   |-> [i \in 1..n |->
                         [w \in Range(tokenized[i]) |-> Count(tokenized[i], w)]],
      idf         |-> [w \in words |-> IF raw[w] < 0 THEN eps ELSE raw[w]]]

\* one query token's addend to document i's score in get_scores:
\*   idf * f * (k1 + 1) / (f + k1 * (1 - b + b * doc_len / avgdl))
\* with avgdl = num_doc / corpus_size, numerator and denominator times
\* 8 * num_doc
TermScore(bm25, q, i) ==
  LET f   == IF q \in DOMAIN bm25.doc_freqs[i] THEN bm25.doc_freqs[i][q] ELSE 0
      idf == IF q \in DOMAIN bm25.idf THEN bm25.idf[q] ELSE 0
  IN (idf * 20 * f * bm25.num_doc)
       \div (8 * f * bm25.num_doc + 3 * bm25.num_doc
               + 9 * bm25.doc_len[i] * bm25.corpus_size)

\* get_scores with a bug: the scores start from the document positions
\* (arange for zeros), so a document no token matches does not score 0.0
get_scores_from_positions(bm25, query) ==
  [i \in 1..bm25.corpus_size |->
     i + SumTo([j \in 1..Len(query) |-> TermScore(bm25, query[j], i)],
               Len(query))]

\* BM25Okapi.get_scores(query): one score per document, summed over the
\* query tokens in order (a repeated token counts each time)
get_scores(bm25, query) ==
  [i \in 1..bm25.corpus_size |->
     SumTo([j \in 1..Len(query) |-> TermScore(bm25, query[j], i)], Len(query))]

(***************************************************************************)
(* Sorting                                                                 *)
(***************************************************************************)
\* InsertDesc with a bug: index i goes in front of the indices whose key
\* equals key[i], so equal keys come out in reverse order
RECURSIVE InsertDescTiesFirst(_, _, _)
InsertDescTiesFirst(order, key, i) ==
  IF order = << >> THEN << i >>
  ELSE IF key[Head(order)] > key[i]
         THEN << Head(order) >> \o InsertDescTiesFirst(Tail(order), key, i)
         ELSE << i >> \o order

\* insert index i into the index list order (descending by key) behind
\* every index whose key is >= key[i]
RECURSIVE InsertDesc(_, _, _)
InsertDesc(order, key, i) ==
  IF order = << >> THEN << i >>
  ELSE IF key[Head(order)] >= key[i]
         THEN << Head(order) >> \o InsertDesc(Tail(order), key, i)
         ELSE << i >> \o order

RECURSIVE SortDescFrom(_, _, _)
SortDescFrom(order, key, i) ==
  IF i > Len(key) THEN order
  ELSE SortDescFrom(InsertDesc(order, key, i), key, i + 1)

\* SortedDesc with a bug: the sort is left out
SortedDescUnsorted(key) == [i \in 1..Len(key) |-> i]

\* sorted(enumerate(key), key=lambda x: x[1], reverse=True), as the list
\* of indices: descending by key, equal keys in their original order
\* (Python's sort is stable, and stays stable under reverse=True)
SortedDesc(key) == SortDescFrom(<< >>, key, 1)

(***************************************************************************)
(* retriever_bm25.py                                                       *)
(***************************************************************************)
\* build_index, lines 70-83: the docs kept from the corpus lines
RECURSIVE KeptDocs(_)
KeptDocs(corpus) ==
  IF corpus = << >> THEN << >>
  ELSE LET obj == Head(corpus)
       IN IF StripIsEmpty(obj.text) THEN KeptDocs(Tail(corpus))
          ELSE << [id |-> obj.id, title |-> obj.title, text |-> obj.text] >>
                 \o KeptDocs(Tail(corpus))

\* build_index: the pickled bundle
build_index(corpus) ==
  LET docs      == KeptDocs(corpus)
      tokenized == [i \in 1..Len(docs) |-> _tokenize(docs[i].text)]
  IN [docs |-> docs, bm25 |-> BM25Okapi(tokenized)]

\* retrieve(query, bm25, docs, top_k): lines 99-103.  scores and
\* idx_scores are the locals of those names, each computed once
retrieve(query, bm25, docs, top_k) ==
  CHOOSE hits \in
    { [r \in 1..Len(idx_scores) |->
         [id    |-> docs[idx_scores[r]].id,
          title |-> docs[idx_scores[r]].title,
          text  |-> docs[idx_scores[r]].text,
          score |-> scores[idx_scores[r]]]] :
      << scores, idx_scores >> \in
         { << sc, Slice(SortedDesc(sc), top_k) >> :
              sc \in { get_scores(bm25, _tokenize(query)) } } } : TRUE

\* Python's None
None == [none |-> TRUE]

\* how a call ends: it returns a value, or an exception leaves it
Returned(v) == [value |-> v]
Raised(exc) == [raised |-> exc]
IsRaised(r) == DOMAIN r = {"raised"}

\* obj[key] of the bundle dict {"docs": docs, "bm25": bm25}
DictItem(obj, key) ==
  CASE key = "docs" -> obj.docs
    [] key = "bm25" -> obj.bm25

\* the values of a dict under the given keys, in the order of the keys
RECURSIVE DictValues(_, _)
DictValues(keys, obj) ==
  IF keys = << >> THEN << >>
  ELSE << DictItem(obj, Head(keys)) >> \o DictValues(Tail(keys), obj)

\* pickle.dump of a dict: its keys in insertion order, and their values
pickle_dump(keys, obj) ==
  [keys |-> keys, values |-> DictValues(keys, obj)]

\* pickle.load: the dict of the pickled keys and values
pickle_load(file) ==
  [k \in Range(file.keys) |->
     file.values[CHOOSE i \in 1..Len(file.keys) : file.keys[i] = k]]

\* load_index(index_path): open() raises when there is no file (None), the
\* subscripts raise when the unpickled dict lacks a key; else the lexical
\* model and the chunk list
load_index(file) ==
  IF file = None THEN Raised("FileNotFoundError")
  ELSE LET blob == pickle_load(file)
       IN IF "bm25" \notin DOMAIN blob THEN Raised("KeyError: bm25")
          ELSE IF "docs" \notin DOMAIN blob THEN Raised("KeyError: docs")
          ELSE Returned(<< blob["bm25"], blob["docs"] >>)

(***************************************************************************)
(* main.py: rerank_candidates                                              *)
(***************************************************************************)
\* what hasattr sees of a RerankerCE object (reranker_ce.py): no predict
\* of its own, a CrossEncoder with predict as .model
RerankerCE == [predict |-> FALSE, model_predict |-> TRUE]

\* rerank_candidates reaches a scoring call with this model (lines 93-105)
CallsPredict(model) ==
  model # None /\ (model.predict \/ model.model_predict)

\* Scored with a bug: every copy is taken of the first candidate
ScoredRepeatsFirst(cands, scores) ==
  [i \in 1..(IF Len(cands) < Len(scores) THEN Len(cands) ELSE Len(scores)) |->
     [id           |-> cands[1].id,
      title        |-> cands[1].title,
      text         |-> cands[1].text,
      score        |-> cands[1].score,
      rerank_score |-> scores[i]]]

\* Scored with a bug: the rerank score is written over the lexical score
ScoredOverwritesScore(cands, scores) ==
  [i \in 1..(IF Len(cands) < Len(scores) THEN Len(cands) ELSE Len(scores)) |->
     [id           |-> cands[i].id,
      title        |-> cands[i].title,
      text         |-> cands[i].text,
      score        |-> scores[i],
      rerank_score |-> scores[i]]]

\* lines 114-121: zip(candidates, scores), each candidate copied and
\* given its rerank_score
Scored(cands, scores) ==
  [i \in 1..(IF Len(cands) < Len(scores) THEN Len(cands) ELSE Len(scores)) |->
     [id           |-> cands[i].id,
      title        |-> cands[i].title,
      text         |-> cands[i].text,
      score        |-> cands[i].score,
      rerank_score |-> scores[i]]]

\* SortByRerank with a bug: reverse=True is left out
SortByRerankAscending(scored) ==
  LET order == SortedDesc([i \in 1..Len(scored) |-> 0 - scored[i].rerank_score])
  IN [r \in 1..Len(scored) |-> scored[order[r]]]

\* line 123: scored.sort(key=rerank_score, reverse=True), a stable sort
SortByRerank(scored) ==
  LET order == SortedDesc([i \in 1..Len(scored) |-> scored[i].rerank_score])
  IN [r \in 1..Len(scored) |-> scored[order[r]]]

\* rerank_candidates with a bug: no try/except around the scoring call
rerank_candidates_unguarded(model, predicted, cands, top_k) ==
  IF model = None THEN Returned(Slice(cands, top_k))
  ELSE IF ~CallsPredict(model) THEN Returned(Slice(cands, top_k))
  ELSE IF IsRaised(predicted) THEN predicted
  ELSE Returned(Slice(SortByRerank(Scored(cands, predicted.value)), top_k))

\* rerank_candidates(query, candidates, top_k) under the global model;
\* predicted is what the scoring call does when it is reached: Raised(..)
\* or Returned(scores).
rerank_candidates(model, predicted, cands, top_k) ==
  IF model = None THEN Returned(Slice(cands, top_k))
  ELSE IF ~CallsPredict(model) THEN Returned(Slice(cands, top_k))
  ELSE IF IsRaised(predicted) THEN Returned(Slice(cands, top_k))
  ELSE Returned(Slice(SortByRerank(Scored(cands, predicted.value)), top_k))

(***************************************************************************)
(* Inputs                                                                  *)
(***************************************************************************)
\* the JSONL lines a corpus file is made of, without their id: a missing
\* "text", "body" or "title" key reads as the empty string here (the code
\* treats None and "" alike: `obj.get("text") or obj.get("body") or ""`)
LineKinds ==
  { [title |-> <<"T">>,  text |-> <<"B", " ", " ", "b">>, body |-> << >>],
    [title |-> << >>,    text |-> << >>,                  body |-> <<"a", " ", "c">>],
    [title |-> <<"T">>,  text |-> <<" ">>,                body |-> <<"b">>] }

\* build_index, line 74: text = obj.get("text") or obj.get("body") or ""
LineText(obj) == IF obj.text # << >> THEN obj.text ELSE obj.body

\* the corpus files: up to MaxDocs lines, the id of a line its position
Corpora ==
  UNION { { [i \in 1..n |-> [id    |-> i,
                             title |-> k[i].title,
                             text  |-> LineText(k[i])]] : k \in [1..n -> LineKinds] }
          : n \in 0..MaxDocs }

\* the user messages
Queries ==
  { <<"b">>, <<"a", " ", " ", "B">>, <<" ">> }

\* MIN_BM25_SCORE settings, in 1e-6: -1.0, 0.0, 0.5 and the default 2.0
Thresholds == { -1000000, 0, 500000, 2000000 }

\* MAX_CONTEXT_DOCS and RERANK_TOPN settings
ContextDocCaps == {1, 2}
RerankTopNs == {1, 2}

\* MAX_TOTAL_CHARS settings (main.py line 51, 3500 by default), scaled to
\* the chunk texts of LineKinds: longer than any one context chunk
TotalCharCaps == {12}

\* index artifacts that build_index did not write: one without its lexical
\* model, one without its chunk list
CorruptArtifacts(corpus) ==
  IF KeptDocs(corpus) = << >> THEN {}
  ELSE { pickle_dump(<<"docs">>, build_index(corpus)),
         pickle_dump(<<"bm25">>, build_index(corpus)) }

\* the update handlers that can be in flight at once
Handlers == {"h1", "h2"}

\* the threads that can be inside build_rag_prompt at once
Threads == {"t1", "t2"}

\* the scores the cross-encoder gives one (query, passage) pair, in 1e-6
RerankScores == { -1000000, 1000000 }

\* what a scoring call on n pairs does: it raises, or returns n scores
PredictOutcomes(n) ==
  { Raised("RuntimeError") } \cup { Returned(sc) : sc \in [1..n -> RerankScores] }

VARIABLES
  app,             \* the module the process runs: "main" or "rag_pipeline"
  corpus,          \* the corpus file build_index reads
  cfg,             \* the environment settings read at import
  index_file,      \* the index artifact on disk: None or the pickled bundle
  build_result,    \* how the build_index run ended, None before it
  ckpt_exists,     \* whether RERANKER_PATH names a loadable checkpoint
  started,         \* main.py has been imported
  BM25, DOCS,      \* main.py globals
  RERANKER_MODEL,  \* main.py global
  pc,              \* position of on_text
  user_text,       \* on_text local
  candidates,      \* on_text local
  ranked,          \* on_text local
  predicted,       \* what the scoring call did in this on_text call
  context_block,   \* on_text local
  prompt,          \* the prompt handed to stream_ollama
  _bm25, _docs,    \* rag_pipeline.py globals
  _reranker,       \* rag_pipeline.py global
  rp_result,       \* how the last build_rag_prompt call ended
  on_text_calls,   \* the locals of each on_text call in flight
  rag_threads,     \* the position of each thread in build_rag_prompt
  pickle_loads,    \* the pickle.load calls of rag_pipeline so far
  PROCESSED_MESSAGES, \* handlers.py global
  handler_calls,   \* the position and the update of each handlers.on_text call
  delivered,       \* the calls of handlers.on_text so far, per update kind
  replies,         \* the placeholder replies sent, per update kind
  model_calls,     \* the stream_ollama calls made, per update kind
  chat_pc,         \* position of the streaming part of on_text
  buffer,          \* on_text local: the answer streamed so far
  last_edit,       \* on_text local
  last_text,       \* on_text local
  final_i,         \* send_final local i
  clock,           \* the value monotonic() returns
  shown,           \* the text Telegram shows in the placeholder message
  followups,       \* the messages sent after the placeholder, in send order
  edits            \* the edits edit_throttled has sent: time and text

\* the locals of on_text
on_text_vars == << pc, user_text, candidates, ranked, predicted,
                   context_block, prompt >>

\* the state of rag_pipeline.py
rag_vars == << _bm25, _docs, _reranker, rp_result >>

\* the state of the concurrent callers
conc_vars == << on_text_calls, rag_threads, pickle_loads >>

\* the state of handlers.py
handlers_vars == << PROCESSED_MESSAGES, handler_calls, delivered, replies,
                    model_calls >>

\* the state of the streamed reply: the locals of on_text after the prompt
\* is chosen, the clock, and what Telegram has been sent
chat_vars == << chat_pc, buffer, last_edit, last_text, final_i, clock, shown,
                followups, edits >>

\* the state of the Telegram side
io_vars == << handlers_vars, chat_vars >>

\* the process state no step of on_text assigns
process_vars == << app, corpus, cfg, index_file, build_result, ckpt_exists,
                   started, BM25, DOCS, RERANKER_MODEL, rag_vars, conc_vars,
                   io_vars >>

vars == << process_vars, on_text_vars >>

NoPrompt == [template |-> "none", user_text |-> << >>, context_block |-> << >>]

\* a thread outside build_rag_prompt
IdleThread == [pc |-> "idle", bundle |-> None]

\* the locals of an on_text call that has not started
IdleCall == [pc |-> "idle", user_text |-> << >>, candidates |-> << >>,
             predicted |-> None, gate |-> FALSE, context_block |-> << >>]

\* the updates handlers.on_text is called with: the message's chat_id and
\* message_id, and whether the update carries it as edited_message
UpdateKinds == [chat_id : {1}, message_id : {1, 2, 3}, edited : BOOLEAN]

\* message.text of the message with this id; message 3 has no text
MessageText(message_id) ==
  CASE message_id = 1 -> <<"b">>
    [] message_id = 2 -> <<" ", "a">>
    [] message_id = 3 -> << >>

\* a handlers.on_text call that has not started
IdleHandler == [pc |-> "idle", chat_id |-> 0, message_id |-> 0, edited |-> FALSE]

\* the state before the process has imported anything
Fresh ==
  /\ corpus \in Corpora
  /\ index_file \in {None} \cup CorruptArtifacts(corpus)
  /\ build_result = None
  /\ ckpt_exists \in BOOLEAN
  /\ started = FALSE
  /\ BM25 = None
  /\ DOCS = << >>
  /\ RERANKER_MODEL = None
  /\ pc = "idle"
  /\ user_text = << >>
  /\ candidates = << >>
  /\ ranked = << >>
  /\ predicted = None
  /\ context_block = << >>
  /\ prompt = NoPrompt
  /\ _bm25 = None
  /\ _docs = << >>
  /\ _reranker = None
  /\ rp_result = None
  /\ on_text_calls = [h1 |-> IdleCall, h2 |-> IdleCall]
  /\ rag_threads = [t1 |-> IdleThread, t2 |-> IdleThread]
  /\ pickle_loads = 0
  /\ PROCESSED_MESSAGES = {}
  /\ handler_calls = [h1 |-> IdleHandler, h2 |-> IdleHandler]
  /\ delivered = [u \in UpdateKinds |-> 0]
  /\ replies = [u \in UpdateKinds |-> 0]
  /\ model_calls = [u \in UpdateKinds |-> 0]
  /\ chat_pc = "idle"
  /\ buffer = << >>
  /\ last_edit = 0
  /\ last_text = << >>
  /\ final_i = 0
  /\ clock = 0
  /\ shown = << >>
  /\ followups = << >>
  /\ edits = << >>

\* the process runs main.py; its settings are those of lines 55-58
Init ==
  /\ app = "main"
  /\ cfg \in [MIN_BM25_SCORE   : Thresholds,
              BM25_TOPK        : 0..MaxTopK,
              MAX_CONTEXT_DOCS : ContextDocCaps,
              RERANK_TOPN      : RerankTopNs,
              MAX_TOTAL_CHARS  : TotalCharCaps]
  /\ Fresh

\* the process uses rag_pipeline.py; its settings are those of lines 15-16
InitRag ==
  /\ app = "rag_pipeline"
  /\ cfg \in [BM25_TOPK   : 0..MaxTopK,
              RERANK_TOPN : RerankTopNs]
  /\ Fresh

\* build_bm25.py: build_index(corpus, out), run once.  With no doc kept
\* BM25Okapi(tokenized) divides by zero (avgdl = num_doc / corpus_size) at
\* line 85, before the file is opened; else the bundle is pickled over
\* whatever the path held and the number of docs is returned.
BuildIndex ==
  /\ build_result = None
  /\ IF KeptDocs(corpus) = << >>
       THEN /\ build_result' = Raised("ZeroDivisionError")
            /\ UNCHANGED index_file
       ELSE /\ index_file' = pickle_dump(<<"docs", "bm25">>, build_index(corpus))
            /\ build_result' = Returned(Len(build_index(corpus).docs))
  /\ UNCHANGED << app, corpus, cfg, ckpt_exists, started, BM25, DOCS,
                  RERANKER_MODEL, rag_vars, conc_vars, on_text_vars >>
  /\ UNCHANGED io_vars

\* IndexGlobals with a bug: the except clause leaves a chunk in DOCS
IndexGlobalsKeepChunk(loaded) ==
  IF IsRaised(loaded)
    THEN << None, << [id |-> 0, title |-> << >>, text |-> <<"b">>] >> >>
    ELSE loaded.value

\* main.py, lines 79-84: BM25, DOCS after the try/except around the load
IndexGlobals(loaded) ==
  IF IsRaised(loaded) THEN << None, << >> >> ELSE loaded.value

\* main.py, lines 61-84: the import loads the reranker and the index
Startup ==
  /\ app = "main"
  /\ ~started
  /\ started' = TRUE
  /\ RERANKER_MODEL' = IF ckpt_exists THEN RerankerCE ELSE None
  /\ BM25' = IndexGlobals(load_index(index_file))[1]
  /\ DOCS' = IndexGlobals(load_index(index_file))[2]
  /\ UNCHANGED << app, corpus, cfg, index_file, build_result, ckpt_exists,
                  rag_vars, conc_vars, on_text_vars >>
  /\ UNCHANGED io_vars

(***************************************************************************)
(* main.py: on_text, one action per stage                                  *)
(***************************************************************************)
\* Python's max
Max(a, b) == IF a >= b THEN a ELSE b

\* sep.join(parts)
RECURSIVE Join(_, _)
Join(parts, sep) ==
  IF parts = << >> THEN << >>
  ELSE IF Len(parts) = 1 THEN parts[1]
  ELSE parts[1] \o sep \o Join(Tail(parts), sep)

\* lines 441-443: "[title] " + text, or text alone
ContextChunk(hit) ==
  (IF hit.title # << >> THEN <<"[">> \o hit.title \o <<"]", " ">> ELSE << >>)
    \o hit.text

\* lines 439-444: the context block of the context docs
ContextBlock(context_docs) ==
  Join([i \in 1..Len(context_docs) |-> ContextChunk(context_docs[i])],
       <<"\n", "\n">>)

\* PromptFor with a bug: the excerpt-carrying prompt whatever the block
PromptAlwaysExcerpts(question, block) ==
  [template |-> "excerpts", user_text |-> question, context_block |-> block]

\* lines 454-468: the excerpt-carrying prompt when there is a context
\* block, the general-knowledge prompt when there is none
PromptFor(question, block) ==
  IF block # << >>
    THEN [template |-> "excerpts", user_text |-> question, context_block |-> block]
    ELSE [template |-> "general", user_text |-> question, context_block |-> << >>]

\* line 428: best_score = candidates[0]["score"] if candidates else 0.0
best_score(cands) == IF cands # << >> THEN cands[1].score ELSE 0

\* GatePasses with a bug: > for >=
GatePassesStrict(cands, threshold) ==
  cands # << >> /\ best_score(cands) > threshold

\* GatePasses with a bug: the test for an empty candidate list is left out
GatePassesOnScoreAlone(cands, threshold) ==
  best_score(cands) >= threshold

\* line 431: if candidates and best_score >= MIN_BM25_SCORE
GatePasses(cands, threshold) ==
  cands # << >> /\ best_score(cands) >= threshold

\* lines 412-422: the update arrives, the placeholder is sent
Receive(q) ==
  /\ app = "main" /\ started /\ pc = "idle"
  /\ pc' = "RECEIVED"
  /\ user_text' = q
  /\ UNCHANGED << candidates, ranked, predicted, context_block, prompt >>
  /\ UNCHANGED process_vars

\* DocsAfterRetrieve with a bug: the score is written into the chunk itself
DocsScoredInPlace(docs, hits) ==
  [i \in 1..Len(docs) |->
     IF \E r \in 1..Len(hits) : hits[r].id = docs[i].id
       THEN [id    |-> docs[i].id,
             title |-> docs[i].title,
             text  |-> docs[i].text,
             score |-> hits[CHOOSE r \in 1..Len(hits) :
                                      hits[r].id = docs[i].id].score]
       ELSE docs[i]]

\* retrieve, line 103: {**docs[i], "score": float(s)} is a new dict for
\* each hit, so the docs list and its dicts are after the call what they
\* were before it
DocsAfterRetrieve(docs, hits) == docs

\* lines 425-428
Retrieve ==
  /\ pc = "RECEIVED"
  /\ BM25 # None /\ DOCS # << >>
  /\ candidates' = retrieve(user_text, BM25, DOCS, cfg.BM25_TOPK)
  /\ DOCS' = DocsAfterRetrieve(DOCS, candidates')
  /\ pc' = "LEXICAL_SCORED"
  /\ UNCHANGED << user_text, ranked, predicted, context_block, prompt >>
  /\ UNCHANGED << app, corpus, cfg, index_file, build_result, ckpt_exists,
                  started, BM25, RERANKER_MODEL, rag_vars, conc_vars >>
  /\ UNCHANGED io_vars

\* lines 430-431
Gate ==
  /\ pc = "LEXICAL_SCORED"
  /\ pc' = IF GatePasses(candidates, cfg.MIN_BM25_SCORE)
             THEN "GATE_PASS" ELSE "GATE_FAIL"
  /\ UNCHANGED << user_text, candidates, ranked, predicted, context_block, prompt >>
  /\ UNCHANGED process_vars

\* lines 433-434: the reranker is configured
Rerank ==
  /\ pc = "GATE_PASS"
  /\ RERANKER_MODEL # None
  /\ \E p \in PredictOutcomes(Len(candidates)) :
       LET res == rerank_candidates(RERANKER_MODEL, p, candidates,
                                    Max(cfg.MAX_CONTEXT_DOCS, cfg.RERANK_TOPN))
       IN /\ predicted' = p
          /\ IF IsRaised(res)
               THEN pc' = "ERROR" /\ ranked' = << >>
               ELSE pc' = "RANKED" /\ ranked' = res.value
  /\ UNCHANGED << user_text, candidates, context_block, prompt >>
  /\ UNCHANGED process_vars

\* SkipRerank with a bug: the else branch is missing, ranked is unbound at
\* line 437 and the handler goes to its except clause
SkipRerankUnbound ==
  /\ pc = "GATE_PASS"
  /\ RERANKER_MODEL = None
  /\ ranked' = << >>
  /\ pc' = "ERROR"
  /\ UNCHANGED << user_text, candidates, predicted, context_block, prompt >>
  /\ UNCHANGED process_vars

\* lines 435-436: no reranker, ranked = candidates
SkipRerank ==
  /\ pc = "GATE_PASS"
  /\ RERANKER_MODEL = None
  /\ ranked' = candidates
  /\ pc' = "RANKED"
  /\ UNCHANGED << user_text, candidates, predicted, context_block, prompt >>
  /\ UNCHANGED process_vars

\* Assemble with a bug: the prompt is chosen inside the gate's branch, so
\* a query that fails the gate is left without one
AssembleOnlyOnPass ==
  /\ pc = "RANKED"
  /\ LET block == ContextBlock(Slice(ranked, cfg.MAX_CONTEXT_DOCS))
     IN /\ context_block' = block
        /\ prompt' = PromptFor(user_text, block)
        /\ pc' = IF block # << >> THEN "ASSEMBLED" ELSE "UNGROUNDED"
  /\ UNCHANGED << user_text, candidates, ranked, predicted >>
  /\ UNCHANGED process_vars

\* lines 437-468: context_docs, the context block and the prompt chosen
Assemble ==
  /\ pc \in {"RANKED", "GATE_FAIL"}
  /\ LET context_docs == IF pc = "RANKED"
                           THEN Slice(ranked, cfg.MAX_CONTEXT_DOCS) ELSE << >>
         block == ContextBlock(context_docs)
     IN /\ context_block' = block
        /\ prompt' = PromptFor(user_text, block)
        /\ pc' = IF block # << >> THEN "ASSEMBLED" ELSE "UNGROUNDED"
  /\ UNCHANGED << user_text, candidates, ranked, predicted >>
  /\ UNCHANGED process_vars

\* lines 483-501: no index, the concise prompt with the bare question
Fallback ==
  /\ pc = "RECEIVED"
  /\ ~(BM25 # None /\ DOCS # << >>)
  /\ prompt' = [template |-> "concise", user_text |-> user_text,
                context_block |-> << >>]
  /\ pc' = "FALLBACK"
  /\ UNCHANGED << user_text, candidates, ranked, predicted, context_block >>
  /\ UNCHANGED process_vars

\* lines 470-479, 490-499, 523-544: the stream to the model fails and the
\* handler reports "Model error"
StreamError ==
  /\ pc \in {"ASSEMBLED", "UNGROUNDED", "FALLBACK"}
  /\ pc' = "ERROR"
  /\ UNCHANGED << user_text, candidates, ranked, predicted, context_block, prompt >>
  /\ UNCHANGED process_vars

\* lines 503-521 (or 523-544 after an error): the answer is sent and the
\* handler returns; its locals are gone
Finish ==
  /\ pc \in {"ASSEMBLED", "UNGROUNDED", "FALLBACK", "ERROR"}
  /\ pc' = "idle"
  /\ user_text' = << >>
  /\ candidates' = << >>
  /\ ranked' = << >>
  /\ predicted' = None
  /\ context_block' = << >>
  /\ prompt' = NoPrompt
  /\ UNCHANGED process_vars

(***************************************************************************)
(* rag_pipeline.py                                                         *)
(***************************************************************************)
\* the orders of the indices in rest that are descending by key
RECURSIVE DescOrders(_, _)
DescOrders(key, rest) ==
  IF rest = {} THEN { << >> }
  ELSE LET tops == {i \in rest : \A j \in rest : key[i] >= key[j]}
       IN UNION { { << i >> \o t : t \in DescOrders(key, rest \ {i}) }
                  : i \in tops }

\* key.argsort()[::-1], as the set of index lists it can be: descending by
\* key, equal keys in any order (the default argsort kind is not a stable
\* sort, and the reversal turns a stable order around)
ArgsortDesc(key) == DescOrders(key, 1..Len(key))

\* what hasattr sees of a sentence_transformers CrossEncoder object
CrossEncoder == [predict |-> TRUE, model_predict |-> FALSE]

\* _simple_tokenize with a bug: lower() is left out
_simple_tokenize_as_typed(text) == Split(text)

\* rag_pipeline._simple_tokenize: text.lower().split()
_simple_tokenize(text) == Split(Lower(text))

\* lines 77-84: the context string of the top docs
RagContext(top_docs) ==
  Join([i \in 1..Len(top_docs) |->
          IF top_docs[i].title # << >>
            THEN <<"#", "#", "#", " ">> \o top_docs[i].title \o <<"\n">>
                   \o top_docs[i].text
            ELSE top_docs[i].text],
       <<"\n", "\n", "-", "-", "-", "\n", "\n">>)

\* _ensure_loaded, lines 31-37: the index globals after this part, and how
\* it ended.  _docs is assigned (line 36) before bundle["bm25"] is read
\* (line 37).
_ensure_loaded_index(bm25, docs, file) ==
  IF ~(bm25 = None \/ docs = << >>)
    THEN [outcome |-> Returned("in memory"), bm25 |-> bm25, docs |-> docs]
  ELSE IF file = None
    THEN [outcome |-> Raised("FileNotFoundError: BM25 index"),
          bm25 |-> bm25, docs |-> docs]
  ELSE LET bundle == pickle_load(file)
       IN IF "docs" \notin DOMAIN bundle
            THEN [outcome |-> Raised("KeyError: docs"),
                  bm25 |-> bm25, docs |-> docs]
          ELSE IF "bm25" \notin DOMAIN bundle
            THEN [outcome |-> Raised("KeyError: bm25"),
                  bm25 |-> bm25, docs |-> bundle["docs"]]
          ELSE [outcome |-> Returned("loaded"),
                bm25 |-> bundle["bm25"], docs |-> bundle["docs"]]

\* the result record of a build_rag_prompt call
RagResult(outcome, stage1, p, top_docs, query) ==
  [outcome    |-> outcome,
   query      |-> query,
   candidates |-> stage1,
   predicted  |-> p,
   top_docs   |-> top_docs,
   prompt     |-> IF IsRaised(outcome) THEN NoPrompt
                  ELSE [template |-> "context_only", user_text |-> query,
                        context_block |-> RagContext(top_docs)]]

\* build_rag_prompt(query), with _ensure_loaded: the whole call
build_rag_prompt(query) ==
  /\ app = "rag_pipeline"
  /\ rp_result = None
  /\ LET index == _ensure_loaded_index(_bm25, _docs, index_file)
     IN /\ _bm25' = index.bm25
        /\ _docs' = index.docs
        /\ IF IsRaised(index.outcome)
             THEN \* lines 31-37: no artifact, or one that lacks a key
                  /\ rp_result' = RagResult(index.outcome, << >>, None, << >>, query)
                  /\ UNCHANGED _reranker
             ELSE IF _reranker = None /\ ~ckpt_exists
             THEN \* lines 40-42: the checkpoint is absent
                  /\ rp_result' =
                       RagResult(Raised("FileNotFoundError: Reranker checkpoint"),
                                 << >>, None, << >>, query)
                  /\ UNCHANGED _reranker
             ELSE \* lines 43, 58-101
                  /\ _reranker' = CrossEncoder
                  /\ LET scores == get_scores(_bm25', _simple_tokenize(query))
                         topk   == IF cfg.BM25_TOPK < Len(_docs')
                                     THEN cfg.BM25_TOPK ELSE Len(_docs')
                     IN \E top_idx \in {Slice(o, topk) : o \in ArgsortDesc(scores)} :
                          LET stage1  == [r \in 1..Len(top_idx) |->
                                            [doc   |-> _docs'[top_idx[r]],
                                             score |-> scores[top_idx[r]]]]
                          IN \E p \in PredictOutcomes(Len(stage1)) :
                               IF IsRaised(p)
                                 THEN \* line 70: the exception leaves the call
                                      rp_result' =
                                        RagResult(Raised("predict"), stage1, p,
                                                  << >>, query)
                                 ELSE \E rerank_idx \in
                                          {Slice(o, cfg.RERANK_TOPN) :
                                             o \in ArgsortDesc(p.value)} :
                                        LET top_docs   ==
                                              [r \in 1..Len(rerank_idx) |->
                                                 stage1[rerank_idx[r]].doc]
                                        IN rp_result' =
                                             RagResult(Returned("prompt"), stage1,
                                                       p, top_docs, query)
  /\ UNCHANGED << app, corpus, cfg, index_file, build_result, ckpt_exists,
                  started, BM25, DOCS, RERANKER_MODEL, conc_vars, on_text_vars >>
  /\ UNCHANGED io_vars

\* the caller takes the prompt, or handles the exception
RagCallerContinues ==
  /\ app = "rag_pipeline"
  /\ rp_result # None
  /\ rp_result' = None
  /\ UNCHANGED << _bm25, _docs, _reranker >>
  /\ UNCHANGED << app, corpus, cfg, index_file, build_result, ckpt_exists,
                  started, BM25, DOCS, RERANKER_MODEL, conc_vars, on_text_vars >>
  /\ UNCHANGED io_vars

(***************************************************************************)
(* main.py: on_text calls in flight at once.  The handler is a coroutine:  *)
(* it gives way at its awaits only, so lines 425-468 run as one step.      *)
(***************************************************************************)
\* lines 425-468 (483-487 without an index) as a function of the query,
\* of what the scoring call does if reached, and of the globals read
on_text_locals(q, p, bm25, docs, model, settings) ==
  IF bm25 # None /\ docs # << >>
    THEN LET cands == retrieve(q, bm25, docs, settings.BM25_TOPK)
             gate  == GatePasses(cands, settings.MIN_BM25_SCORE)
             top_k == Max(settings.MAX_CONTEXT_DOCS, settings.RERANK_TOPN)
             rank  == IF ~gate THEN << >>
                      ELSE IF model # None
                        THEN rerank_candidates(model, p, cands, top_k).value
                        ELSE cands
         IN [pc            |-> "STREAMING",
             user_text     |-> q,
             candidates    |-> cands,
             predicted     |-> p,
             gate          |-> gate,
             context_block |-> ContextBlock(Slice(rank, settings.MAX_CONTEXT_DOCS))]
    ELSE [pc            |-> "STREAMING",
          user_text     |-> q,
          candidates    |-> << >>,
          predicted     |-> p,
          gate          |-> FALSE,
          context_block |-> << >>]

\* what the scoring call can do in a call for query q: None when
\* rerank_candidates is not reached
ScoringOutcomes(q) ==
  IF /\ BM25 # None /\ DOCS # << >> /\ RERANKER_MODEL # None
     /\ GatePasses(retrieve(q, BM25, DOCS, cfg.BM25_TOPK), cfg.MIN_BM25_SCORE)
    THEN PredictOutcomes(Len(retrieve(q, BM25, DOCS, cfg.BM25_TOPK)))
    ELSE {None}

\* StoreLocals with a bug: candidates is a module global, shared by the
\* calls in flight
StoreCandidatesGlobally(calls, h, locals) ==
  [h1 |-> IF h = "h1" THEN locals
          ELSE [calls.h1 EXCEPT !.candidates = locals.candidates],
   h2 |-> IF h = "h2" THEN locals
          ELSE [calls.h2 EXCEPT !.candidates = locals.candidates]]

\* the names assigned in on_text are locals of the call
StoreLocals(calls, h, locals) == [calls EXCEPT ![h] = locals]

\* lines 411-422 of call h: the update arrives, the placeholder is awaited
CallReceive(h, q) ==
  /\ app = "main" /\ started
  /\ on_text_calls[h].pc = "idle"
  /\ on_text_calls' =
       StoreLocals(on_text_calls, h,
                   [IdleCall EXCEPT !.pc = "RECEIVED", !.user_text = q])
  /\ UNCHANGED << app, corpus, cfg, index_file, build_result, ckpt_exists,
                  started, BM25, DOCS, RERANKER_MODEL, rag_vars, rag_threads,
                  pickle_loads, on_text_vars >>
  /\ UNCHANGED io_vars

\* lines 425-468 of call h, up to the first await of the stream
CallAnswer(h) ==
  /\ on_text_calls[h].pc = "RECEIVED"
  /\ \E p \in ScoringOutcomes(on_text_calls[h].user_text) :
       LET locals == on_text_locals(on_text_calls[h].user_text, p, BM25, DOCS,
                                    RERANKER_MODEL, cfg)
       IN /\ on_text_calls' = StoreLocals(on_text_calls, h, locals)
          /\ DOCS' = DocsAfterRetrieve(DOCS, locals.candidates)
  /\ UNCHANGED << app, corpus, cfg, index_file, build_result, ckpt_exists,
                  started, BM25, RERANKER_MODEL, rag_vars, rag_threads,
                  pickle_loads, on_text_vars >>
  /\ UNCHANGED io_vars

\* lines 470-521 of call h: the answer is streamed and sent, the call ends
CallFinish(h) ==
  /\ on_text_calls[h].pc = "STREAMING"
  /\ on_text_calls' = StoreLocals(on_text_calls, h, IdleCall)
  /\ UNCHANGED << app, corpus, cfg, index_file, build_result, ckpt_exists,
                  started, BM25, DOCS, RERANKER_MODEL, rag_vars, rag_threads,
                  pickle_loads, on_text_vars >>
  /\ UNCHANGED io_vars

(***************************************************************************)
(* rag_pipeline.py: build_rag_prompt called from several threads.  The     *)
(* function is synchronous, and a thread can be preempted between any two  *)
(* statements of _ensure_loaded.                                           *)
(***************************************************************************)
\* the position and the bundle local of thread t
ThreadAt(threads, t, pos, bundle) ==
  [threads EXCEPT ![t] = [pc |-> pos, bundle |-> bundle]]

\* lines 31-33 in thread t: the test of the globals and of the path
ThreadEnter(t) ==
  /\ app = "rag_pipeline"
  /\ rag_threads[t].pc = "idle"
  /\ rag_threads' =
       ThreadAt(rag_threads, t,
                IF ~(_bm25 = None \/ _docs = << >>) THEN "index_ready"
                ELSE IF index_file = None THEN "raised"
                ELSE "opening",
                None)
  /\ UNCHANGED << _bm25, _docs, _reranker, rp_result, on_text_calls, pickle_loads >>
  /\ UNCHANGED << app, corpus, cfg, index_file, build_result, ckpt_exists,
                  started, BM25, DOCS, RERANKER_MODEL, on_text_vars >>
  /\ UNCHANGED io_vars

\* lines 34-35 in thread t: bundle = pickle.load(f)
ThreadUnpickle(t) ==
  /\ rag_threads[t].pc = "opening"
  /\ pickle_loads < MaxLoads
  /\ pickle_loads' = pickle_loads + 1
  /\ rag_threads' = ThreadAt(rag_threads, t, "unpickled", index_file)
  /\ UNCHANGED << _bm25, _docs, _reranker, rp_result, on_text_calls >>
  /\ UNCHANGED << app, corpus, cfg, index_file, build_result, ckpt_exists,
                  started, BM25, DOCS, RERANKER_MODEL, on_text_vars >>
  /\ UNCHANGED io_vars

\* line 36 in thread t: _docs = bundle["docs"]
ThreadSetDocs(t) ==
  /\ rag_threads[t].pc = "unpickled"
  /\ LET bundle == pickle_load(rag_threads[t].bundle)
     IN IF "docs" \in DOMAIN bundle
          THEN /\ _docs' = bundle["docs"]
               /\ rag_threads' = ThreadAt(rag_threads, t, "docs_set",
                                          rag_threads[t].bundle)
          ELSE /\ UNCHANGED _docs
               /\ rag_threads' = ThreadAt(rag_threads, t, "raised", None)
  /\ UNCHANGED << _bm25, _reranker, rp_result, on_text_calls, pickle_loads >>
  /\ UNCHANGED << app, corpus, cfg, index_file, build_result, ckpt_exists,
                  started, BM25, DOCS, RERANKER_MODEL, on_text_vars >>
  /\ UNCHANGED io_vars

\* line 37 in thread t: _bm25 = bundle["bm25"]
ThreadSetBm25(t) ==
  /\ rag_threads[t].pc = "docs_set"
  /\ LET bundle == pickle_load(rag_threads[t].bundle)
     IN IF "bm25" \in DOMAIN bundle
          THEN /\ _bm25' = bundle["bm25"]
               /\ rag_threads' = ThreadAt(rag_threads, t, "index_ready", None)
          ELSE /\ UNCHANGED _bm25
               /\ rag_threads' = ThreadAt(rag_threads, t, "raised", None)
  /\ UNCHANGED << _docs, _reranker, rp_result, on_text_calls, pickle_loads >>
  /\ UNCHANGED << app, corpus, cfg, index_file, build_result, ckpt_exists,
                  started, BM25, DOCS, RERANKER_MODEL, on_text_vars >>
  /\ UNCHANGED io_vars

\* lines 40-101 in thread t: the reranker is loaded if it is not there,
\* and the prompt is built from the globals
ThreadBuildPrompt(t) ==
  /\ rag_threads[t].pc = "index_ready"
  /\ IF _reranker = None /\ ~ckpt_exists
       THEN /\ UNCHANGED _reranker
            /\ rag_threads' = ThreadAt(rag_threads, t, "raised", None)
       ELSE /\ _reranker' = CrossEncoder
            /\ \E p \in {"predict raised", "returned"} :
                 rag_threads' =
                   ThreadAt(rag_threads, t,
                            IF p = "returned" THEN "returned" ELSE "raised", None)
  /\ UNCHANGED << _bm25, _docs, rp_result, on_text_calls, pickle_loads >>
  /\ UNCHANGED << app, corpus, cfg, index_file, build_result, ckpt_exists,
                  started, BM25, DOCS, RERANKER_MODEL, on_text_vars >>
  /\ UNCHANGED io_vars

\* the call of thread t is over: its caller has the prompt or the exception
ThreadLeave(t) ==
  /\ rag_threads[t].pc \in {"raised", "returned"}
  /\ rag_threads' = ThreadAt(rag_threads, t, "idle", None)
  /\ UNCHANGED << _bm25, _docs, _reranker, rp_result, on_text_calls, pickle_loads >>
  /\ UNCHANGED << app, corpus, cfg, index_file, build_result, ckpt_exists,
                  started, BM25, DOCS, RERANKER_MODEL, on_text_vars >>
  /\ UNCHANGED io_vars

(***************************************************************************)
(* handlers.py: on_text up to the model call.  The handler is a coroutine: *)
(* lines 42-66 have no await and run as one step.                          *)
(***************************************************************************)
\* the update of a handlers.on_text call
UpdateOf(call) ==
  [chat_id |-> call.chat_id, message_id |-> call.message_id,
   edited |-> call.edited]

\* line 62: key = (chat_id, message_id)
KeyOf(u) == << u.chat_id, u.message_id >>

\* MarkProcessed with a bug: the key is not recorded
MarkProcessedForgets(processed, key) == processed

\* line 66: PROCESSED_MESSAGES.add(key)
MarkProcessed(processed, key) == processed \cup {key}

\* lines 40-66: the update is dropped (an edited message, a message
\* without text, a key already handled), or its key is recorded and the
\* handler goes on to the await of line 68
HandlerReceive(h, u) ==
  /\ app = "handlers"
  /\ handler_calls[h].pc = "idle"
  /\ delivered[u] < MaxDeliveries
  /\ delivered' = [delivered EXCEPT ![u] = @ + 1]
  /\ IF \/ u.edited
        \/ MessageText(u.message_id) = << >>
        \/ KeyOf(u) \in PROCESSED_MESSAGES
       THEN UNCHANGED << PROCESSED_MESSAGES, handler_calls >>
       ELSE /\ PROCESSED_MESSAGES' = MarkProcessed(PROCESSED_MESSAGES, KeyOf(u))
            /\ handler_calls' =
                 [handler_calls EXCEPT ![h] =
                    [pc |-> "typing", chat_id |-> u.chat_id,
                     message_id |-> u.message_id, edited |-> u.edited]]
  /\ UNCHANGED << replies, model_calls, chat_vars >>
  /\ UNCHANGED << app, corpus, cfg, index_file, build_result, ckpt_exists,
                  started, BM25, DOCS, RERANKER_MODEL, rag_vars, conc_vars,
                  on_text_vars >>

\* lines 68-70: the chat action is sent, then the placeholder reply
HandlerReply(h) ==
  /\ handler_calls[h].pc = "typing"
  /\ replies' = [replies EXCEPT ![UpdateOf(handler_calls[h])] = @ + 1]
  /\ handler_calls' = [handler_calls EXCEPT ![h].pc = "placeholder"]
  /\ UNCHANGED << PROCESSED_MESSAGES, delivered, model_calls, chat_vars >>
  /\ UNCHANGED << app, corpus, cfg, index_file, build_result, ckpt_exists,
                  started, BM25, DOCS, RERANKER_MODEL, rag_vars, conc_vars,
                  on_text_vars >>

\* lines 71-114 (or 134): the prompt is built and stream_ollama is called
HandlerStream(h) ==
  /\ handler_calls[h].pc = "placeholder"
  /\ model_calls' = [model_calls EXCEPT ![UpdateOf(handler_calls[h])] = @ + 1]
  /\ handler_calls' = [handler_calls EXCEPT ![h].pc = "streaming"]
  /\ UNCHANGED << PROCESSED_MESSAGES, delivered, replies, chat_vars >>
  /\ UNCHANGED << app, corpus, cfg, index_file, build_result, ckpt_exists,
                  started, BM25, DOCS, RERANKER_MODEL, rag_vars, conc_vars,
                  on_text_vars >>

\* lines 115-180: the answer is streamed and sent (or the error reported),
\* and the handler returns
HandlerReturn(h) ==
  /\ handler_calls[h].pc = "streaming"
  /\ handler_calls' = [handler_calls EXCEPT ![h] = IdleHandler]
  /\ UNCHANGED << PROCESSED_MESSAGES, delivered, replies, model_calls,
                  chat_vars >>
  /\ UNCHANGED << app, corpus, cfg, index_file, build_result, ckpt_exists,
                  started, BM25, DOCS, RERANKER_MODEL, rag_vars, conc_vars,
                  on_text_vars >>

Next ==
  \/ BuildIndex
  \/ Startup
  \/ \E q \in Queries : Receive(q)
  \/ Retrieve
  \/ Gate
  \/ Rerank
  \/ SkipRerank
  \/ Assemble
  \/ Fallback
  \/ StreamError
  \/ Finish

NextRag ==
  \/ BuildIndex
  \/ \E q \in Queries : build_rag_prompt(q)
  \/ RagCallerContinues

\* the Telegram bot of main.py
Spec == Init /\ [][Next]_vars

\* a process calling rag_pipeline.build_rag_prompt
SpecRag == InitRag /\ [][NextRag]_vars

\* main.py with one setting of the candidate count and the caps
InitLive ==
  /\ app = "main"
  /\ cfg \in [MIN_BM25_SCORE   : {0, 500000},
              BM25_TOPK        : {2},
              MAX_CONTEXT_DOCS : {1},
              RERANK_TOPN      : {2},
              MAX_TOTAL_CHARS  : TotalCharCaps]
  /\ Fresh

\* lines 425-468 of on_text have no await and no loop but those over the
\* candidate list: once the handler runs, each stage is followed by the
\* next as soon as the call it makes (retrieve, the scoring model) has
\* returned or raised
PipelineStep ==
  Retrieve \/ Gate \/ Rerank \/ SkipRerank \/ Assemble \/ Fallback

\* the Telegram bot of main.py, each call of the pipeline ending
SpecLive == InitLive /\ [][Next]_vars /\ WF_vars(PipelineStep)

\* main.py with settings under which two queries differ in their gate
\* decision and in their candidates
InitConcurrent ==
  /\ app = "main"
  /\ cfg \in [MIN_BM25_SCORE   : {0, 500000},
              BM25_TOPK        : {1, 2},
              MAX_CONTEXT_DOCS : ContextDocCaps,
              RERANK_TOPN      : {1},
              MAX_TOTAL_CHARS  : TotalCharCaps]
  /\ Fresh

NextConcurrent ==
  \/ BuildIndex
  \/ Startup
  \/ \E h \in Handlers : \E q \in Queries : CallReceive(h, q)
  \/ \E h \in Handlers : CallAnswer(h)
  \/ \E h \in Handlers : CallFinish(h)

\* the Telegram bot of main.py with up to two updates in flight
SpecConcurrent == InitConcurrent /\ [][NextConcurrent]_vars

\* a process that registers handlers.on_text and has no index; its
\* settings are those of rex_core.py
InitHandlers ==
  /\ app = "handlers"
  /\ cfg = [MIN_BM25_SCORE |-> 2000000, MAX_CONTEXT_DOCS |-> 2,
            MAX_TOTAL_CHARS |-> 12]
  /\ Fresh
  /\ corpus = << >>
  /\ ~ckpt_exists

NextHandlers ==
  \/ \E h \in Handlers : \E u \in UpdateKinds : HandlerReceive(h, u)
  \/ \E h \in Handlers : HandlerReply(h)
  \/ \E h \in Handlers : HandlerStream(h)
  \/ \E h \in Handlers : HandlerReturn(h)

\* the Telegram bot of handlers.py with up to two updates in flight
SpecHandlers == InitHandlers /\ [][NextHandlers]_vars

\* rag_pipeline.py with one setting of BM25_TOPK and RERANK_TOPN
InitThreads ==
  /\ app = "rag_pipeline"
  /\ cfg \in [BM25_TOPK : {MaxTopK}, RERANK_TOPN : {1}]
  /\ Fresh

NextThreads ==
  \/ BuildIndex
  \/ \E t \in Threads : ThreadEnter(t)
  \/ \E t \in Threads : ThreadUnpickle(t)
  \/ \E t \in Threads : ThreadSetDocs(t)
  \/ \E t \in Threads : ThreadSetBm25(t)
  \/ \E t \in Threads : ThreadBuildPrompt(t)
  \/ \E t \in Threads : ThreadLeave(t)

\* a process whose threads call rag_pipeline.build_rag_prompt
SpecThreads == InitThreads /\ [][NextThreads]_vars

(***************************************************************************)
(* main.py: rerank_candidates as a function of its arguments, of the       *)
(* global model and of what the scoring call gives                         *)
(***************************************************************************)
\* what hasattr sees of an object with neither predict nor model.predict
NoPredict == [predict |-> FALSE, model_predict |-> FALSE]

\* the values RERANKER_MODEL is tested for at lines 93-108
RerankerModels == { None, RerankerCE, CrossEncoder, NoPredict }

\* what a scoring call on n pairs does when nothing is known of the object
\* behind predict: it raises, or returns a list of scores of some length
AnyPredictOutcomes(n) ==
  { Raised("RuntimeError") }
    \cup { Returned(sc) : sc \in UNION { [1..m -> RerankScores] : m \in 0..(n + 1) } }

\* a process with an index in memory, a model, and the candidates retrieve
\* gave for a query
InitRerank ==
  /\ app = "rerank_candidates"
  /\ corpus \in { c \in Corpora : Len(KeptDocs(c)) = MaxDocs }
  /\ cfg \in [BM25_TOPK        : {MaxTopK},
              MAX_CONTEXT_DOCS : {1},
              RERANK_TOPN      : 1..MaxTopK]
  /\ index_file = pickle_dump(<<"docs", "bm25">>, build_index(corpus))
  /\ build_result = Returned(Len(KeptDocs(corpus)))
  /\ ckpt_exists = TRUE
  /\ started = TRUE
  /\ BM25 = build_index(corpus).bm25
  /\ DOCS = build_index(corpus).docs
  /\ RERANKER_MODEL \in RerankerModels
  /\ pc = "GATE_PASS"
  /\ user_text \in Queries
  /\ candidates = retrieve(user_text, BM25, DOCS, cfg.BM25_TOPK)
  /\ ranked = << >>
  /\ predicted = None
  /\ context_block = << >>
  /\ prompt = NoPrompt
  /\ _bm25 = None
  /\ _docs = << >>
  /\ _reranker = None
  /\ rp_result = None
  /\ on_text_calls = [h1 |-> IdleCall, h2 |-> IdleCall]
  /\ rag_threads = [t1 |-> IdleThread, t2 |-> IdleThread]
  /\ pickle_loads = 0
  /\ PROCESSED_MESSAGES = {}
  /\ handler_calls = [h1 |-> IdleHandler, h2 |-> IdleHandler]
  /\ delivered = [u \in UpdateKinds |-> 0]
  /\ replies = [u \in UpdateKinds |-> 0]
  /\ model_calls = [u \in UpdateKinds |-> 0]
  /\ chat_pc = "idle"
  /\ buffer = << >>
  /\ last_edit = 0
  /\ last_text = << >>
  /\ final_i = 0
  /\ clock = 0
  /\ shown = << >>
  /\ followups = << >>
  /\ edits = << >>

\* rerank_candidates(query, candidates, top_k) is called and returns
CallRerank ==
  /\ app = "rerank_candidates"
  /\ pc = "GATE_PASS"
  /\ \E p \in AnyPredictOutcomes(Len(candidates)) :
       /\ predicted' = (IF CallsPredict(RERANKER_MODEL) THEN p ELSE None)
       /\ ranked' = rerank_candidates(RERANKER_MODEL, p, candidates,
                                      Max(cfg.MAX_CONTEXT_DOCS,
                                          cfg.RERANK_TOPN)).value
  /\ pc' = "RANKED"
  /\ UNCHANGED << user_text, candidates, context_block, prompt >>
  /\ UNCHANGED process_vars

\* the caller drops the list and calls again
CallRerankAgain ==
  /\ app = "rerank_candidates"
  /\ pc = "RANKED"
  /\ pc' = "GATE_PASS"
  /\ ranked' = << >>
  /\ predicted' = None
  /\ UNCHANGED << user_text, candidates, context_block, prompt >>
  /\ UNCHANGED process_vars

NextRerank == CallRerank \/ CallRerankAgain

\* calls of rerank_candidates
SpecRerank == InitRerank /\ [][NextRerank]_vars

(***************************************************************************)
(* chat_utils.py (the same two functions are in main.py, lines 160-203)    *)
(* and the part of on_text that streams the answer                         *)
(***************************************************************************)
\* MAX_LEN = 4096, Telegram's message limit, scaled to the chunks below
MAX_LEN == 3

\* min_interval = 0.25 (seconds), in ticks of the clock: one tick is 0.125 s
min_interval == 2

\* the one-character string "…" (U+2026)
Ellipsis == <<"...">>

\* "\n\n…(truncated for length)", scaled: the note appended to a cut buffer
TruncationNote == <<"\n", "...">>

\* "No response.", scaled: what send_final gets for an empty buffer
NoResponse == <<"N", "o">>

\* the chunks stream_ollama yields: never the empty string (main.py 156)
Chunks == { <<"a">>, <<"b", "a">>, Ellipsis }

\* MAX_TOTAL_CHARS settings of the streamed reply: below and above MAX_LEN
ReplyCharCaps == {2, 5}

\* s[i:j] of Python for 0 <= i <= j
PySlice(s, i, j) ==
  LET m == IF j < Len(s) THEN j ELSE Len(s)
  IN IF i >= m THEN << >> ELSE SubSeq(s, i + 1, m)

\* `x or y` of Python for strings
Or(x, y) == IF x # << >> THEN x ELSE y

\* what monotonic() can return after it returned t
ClockAfter(t) ==
  { u \in t..(t + min_interval) : u <= MaxClock }

\* what a call of the Bot API does, the edit of a message to the text it
\* already has aside (that one raises BadRequest "message is not
\* modified", which both functions swallow)
BotCallOutcomes == { "ok", "raises" }

\* edit_throttled with a bug: the interval test is left out
edit_throttled_unthrottled(new_full_text, last_edit_time, last_text_arg, now) ==
  LET display == IF Len(new_full_text) <= MAX_LEN THEN new_full_text
                 ELSE PySlice(new_full_text, Len(new_full_text) - MAX_LEN,
                              Len(new_full_text))
  IN IF display = last_text_arg
       THEN [sent |-> FALSE, text |-> << >>,
             last_edit_time |-> last_edit_time, last_text |-> last_text_arg]
     ELSE [sent |-> TRUE, text |-> Or(display, Ellipsis),
           last_edit_time |-> now, last_text |-> display]

\* edit_throttled(context, chat_id, message_id, new_full_text,
\* last_edit_time, last_text), lines 18-31: whether the edit is sent and
\* with which text, and the pair returned when the call does not raise;
\* now is what monotonic() returns
edit_throttled(new_full_text, last_edit_time, last_text_arg, now) ==
  LET display == IF Len(new_full_text) <= MAX_LEN THEN new_full_text
                 ELSE PySlice(new_full_text, Len(new_full_text) - MAX_LEN,
                              Len(new_full_text))
  IN IF display = last_text_arg
       THEN [sent |-> FALSE, text |-> << >>,
             last_edit_time |-> last_edit_time, last_text |-> last_text_arg]
     ELSE IF (now - last_edit_time) < min_interval
       THEN [sent |-> FALSE, text |-> << >>,
             last_edit_time |-> last_edit_time, last_text |-> last_text_arg]
     ELSE [sent |-> TRUE, text |-> Or(display, Ellipsis),
           last_edit_time |-> now, last_text |-> display]

\* send_final, line 40: first = (full_text[:MAX_LEN] or "…")
FinalFirst(full_text) == Or(PySlice(full_text, 0, MAX_LEN), Ellipsis)

\* FollowupText with a bug: the slice starts one character late
FollowupTextLate(full_text, i) == PySlice(full_text, i + 1, i + 1 + MAX_LEN)

\* send_final, line 49: text = full_text[i:i+MAX_LEN]
FollowupText(full_text, i) == PySlice(full_text, i, i + MAX_LEN)

\* on_text, line 503: the full_text on_text hands to send_final
FullText == Or(buffer, NoResponse)

\* the retrieval state, which no step of the streamed reply assigns
retrieval_vars == << app, corpus, cfg, index_file, build_result, ckpt_exists,
                     started, BM25, DOCS, RERANKER_MODEL, rag_vars, conc_vars,
                     on_text_vars, handlers_vars >>

\* on_text, lines 415-420: the placeholder "…" is sent and the locals set
StartReply ==
  /\ app = "chat"
  /\ chat_pc = "idle"
  /\ chat_pc' = "streaming"
  /\ shown' = Ellipsis
  /\ buffer' = << >>
  /\ last_edit' = 0
  /\ last_text' = Ellipsis
  /\ final_i' = 0
  /\ followups' = << >>
  /\ edits' = << >>
  /\ clock' \in ClockAfter(clock)
  /\ UNCHANGED retrieval_vars

\* on_text, lines 470-479 (490-499 without an index): one chunk arrives; the
\* buffer is cut and the loop left, or edit_throttled is called
StreamChunk(chunk) ==
  /\ chat_pc = "streaming"
  /\ LET grown == buffer \o chunk
     IN IF Len(grown) >= cfg.MAX_TOTAL_CHARS
          THEN /\ buffer' = PySlice(grown, 0, cfg.MAX_TOTAL_CHARS) \o TruncationNote
               /\ chat_pc' = "send_final"
               /\ UNCHANGED << last_edit, last_text, clock, shown, edits >>
          ELSE /\ buffer' = grown
               /\ \E now \in ClockAfter(clock) :
                    LET r == edit_throttled(grown, last_edit, last_text, now)
                    IN /\ clock' = now
                       /\ IF r.sent
                            THEN /\ edits' = Append(edits, [at |-> now, text |-> r.text])
                                 /\ \E outcome \in BotCallOutcomes :
                                      IF outcome = "ok" \/ r.text = shown
                                        THEN /\ shown' = r.text
                                             /\ last_edit' = r.last_edit_time
                                             /\ last_text' = r.last_text
                                             /\ chat_pc' = "streaming"
                                        ELSE /\ chat_pc' = "error"
                                             /\ UNCHANGED << shown, last_edit, last_text >>
                            ELSE /\ last_edit' = r.last_edit_time
                                 /\ last_text' = r.last_text
                                 /\ chat_pc' = "streaming"
                                 /\ UNCHANGED << shown, edits >>
  /\ UNCHANGED << final_i, followups >>
  /\ UNCHANGED retrieval_vars

\* the stream ends (the async for is exhausted), or raises
StreamEnd ==
  /\ chat_pc = "streaming"
  /\ chat_pc' \in {"send_final", "error"}
  /\ UNCHANGED << buffer, last_edit, last_text, final_i, clock, shown,
                  followups, edits >>
  /\ UNCHANGED retrieval_vars

\* send_final, lines 40-47: the placeholder is edited to the first part
\* unless it is the last text, and i is set
SendFinalFirst ==
  /\ chat_pc = "send_final"
  /\ LET first == FinalFirst(FullText)
     IN IF first # last_text
          THEN \E outcome \in BotCallOutcomes :
                 IF outcome = "ok" \/ first = shown
                   THEN /\ shown' = first
                        /\ final_i' = MAX_LEN
                        /\ chat_pc' = "send_final_loop"
                   ELSE /\ chat_pc' = "error"
                        /\ UNCHANGED << shown, final_i >>
          ELSE /\ final_i' = MAX_LEN
               /\ chat_pc' = "send_final_loop"
               /\ UNCHANGED shown
  /\ UNCHANGED << buffer, last_edit, last_text, clock, followups, edits >>
  /\ UNCHANGED retrieval_vars

\* send_final, lines 48-50: one turn of the loop, or the return
SendFinalNext ==
  /\ chat_pc = "send_final_loop"
  /\ IF final_i < Len(FullText)
       THEN \E outcome \in BotCallOutcomes :
              IF outcome = "ok"
                THEN /\ followups' = Append(followups, FollowupText(FullText, final_i))
                     /\ final_i' = final_i + MAX_LEN
                     /\ chat_pc' = "send_final_loop"
                ELSE /\ chat_pc' = "error"
                     /\ UNCHANGED << followups, final_i >>
       ELSE /\ chat_pc' = "sent"
            /\ UNCHANGED << followups, final_i >>
  /\ UNCHANGED << buffer, last_edit, last_text, clock, shown, edits >>
  /\ UNCHANGED retrieval_vars

\* on_text returns (lines 505-521, or 523-544 after an exception); the
\* next message is answered
ReplyDone ==
  /\ chat_pc \in {"sent", "error"}
  /\ chat_pc' = "idle"
  /\ buffer' = << >>
  /\ last_edit' = 0
  /\ last_text' = << >>
  /\ final_i' = 0
  /\ shown' = << >>
  /\ followups' = << >>
  /\ edits' = << >>
  /\ UNCHANGED clock
  /\ UNCHANGED retrieval_vars

\* a process answering without an index; the reply cap is set
InitChat ==
  /\ app = "chat"
  /\ cfg \in [MIN_BM25_SCORE   : {2000000},
              BM25_TOPK        : {MaxTopK},
              MAX_CONTEXT_DOCS : {1},
              RERANK_TOPN      : {1},
              MAX_TOTAL_CHARS  : ReplyCharCaps]
  /\ Fresh
  /\ corpus = << >>
  /\ ~ckpt_exists

NextChat ==
  \/ StartReply
  \/ \E chunk \in Chunks : StreamChunk(chunk)
  \/ StreamEnd
  \/ SendFinalFirst
  \/ SendFinalNext
  \/ ReplyDone

\* the streamed reply to one message after another
SpecChat == InitChat /\ [][NextChat]_vars

(***************************************************************************)
(* Properties                                                              *)
(***************************************************************************)
Min(a, b) == IF a <= b THEN a ELSE b

\* the top_k on_text hands to rerank_candidates (line 434)
RerankTopK == Max(cfg.MAX_CONTEXT_DOCS, cfg.RERANK_TOPN)

\* the chunk a candidate carries
ChunkOf(c) == [id |-> c.id, title |-> c.title, text |-> c.text]

\* the lexical scores of the chunks of DOCS for the query of this call
LexicalScores == get_scores(BM25, _tokenize(user_text))

\* the index in DOCS of the chunk with this id
DocIndex(id) == CHOOSE i \in 1..Len(DOCS) : DOCS[i].id = id

\* the position in candidates of the candidate with this id
CandidateIndex(id) == CHOOSE i \in 1..Len(candidates) : candidates[i].id = id

\* C1: for top_k >= 1, retrieve returns exactly min(top_k, number of
\* chunks) candidates, and their scores never increase from first to last.
C1_RetrieveAtMostTopKSorted ==
  (pc = "LEXICAL_SCORED" /\ cfg.BM25_TOPK >= 1) =>
     /\ Len(candidates) = Min(cfg.BM25_TOPK, Len(DOCS))
     /\ Len(candidates) <= cfg.BM25_TOPK
     /\ \A r \in 1..(Len(candidates) - 1) :
          candidates[r].score >= candidates[r + 1].score

\* retrieve has cut the list and the kept scores differ
C1_Witness ==
  /\ pc = "LEXICAL_SCORED"
  /\ cfg.BM25_TOPK >= 2
  /\ Len(candidates) = cfg.BM25_TOPK
  /\ Len(candidates) < Len(DOCS)
  /\ candidates[1].score > candidates[Len(candidates)].score

\* C2: the list retrieve returns is fixed by the query, the index and
\* top_k alone: rank r holds the chunk that has exactly r - 1 chunks ahead
\* of it in the order "higher score first, equal scores by chunk position",
\* so two calls with the same arguments return the same chunks in the same
\* order, and returned chunks of equal score stand in chunk position order.
C2_RetrieveDeterministicTieOrder ==
  pc = "LEXICAL_SCORED" =>
     /\ \A r \in 1..Len(candidates) :
          \E i \in 1..Len(DOCS) :
             /\ ChunkOf(candidates[r]) = DOCS[i]
             /\ candidates[r].score = LexicalScores[i]
             /\ Cardinality({j \in 1..Len(DOCS) :
                               \/ LexicalScores[j] > LexicalScores[i]
                               \/ LexicalScores[j] = LexicalScores[i] /\ j < i})
                  = r - 1
     /\ \A r, t \in 1..Len(candidates) :
          (r < t /\ candidates[r].score = candidates[t].score)
             => DocIndex(candidates[r].id) < DocIndex(candidates[t].id)

\* a tie at the cut: chunks of equal score, not all of them returned
C2_Witness ==
  /\ pc = "LEXICAL_SCORED"
  /\ Len(candidates) >= 2
  /\ Len(candidates) < Len(DOCS)
  /\ \A i \in 1..Len(DOCS) : LexicalScores[i] = candidates[1].score

\* the words of the query
QueryTerms == Range(_tokenize(user_text))

\* the words of a chunk's text
ChunkTerms(c) == Range(_tokenize(c.text))

\* C3: when exactly one chunk of the corpus contains a query term, retrieve
\* gives that chunk a strictly positive score and ranks it above every chunk
\* that matches no query term.
C3_OnlyMatchingChunkRanksFirst ==
  (pc = "LEXICAL_SCORED" /\ cfg.BM25_TOPK >= Len(DOCS)) =>
     \A r \in 1..Len(candidates) :
        (\E w \in QueryTerms :
            /\ w \in ChunkTerms(candidates[r])
            /\ \A i \in 1..Len(DOCS) :
                 w \in ChunkTerms(DOCS[i]) => DOCS[i].id = candidates[r].id)
        => /\ candidates[r].score > 0
           /\ \A t \in 1..Len(candidates) :
                (QueryTerms \cap ChunkTerms(candidates[t]) = {}) => r < t

C5_EmptyNeverGrounds ==
  (candidates = << >> /\ pc \in {"GATE_PASS", "GATE_FAIL", "RANKED",
                                 "ASSEMBLED", "UNGROUNDED"}) =>
     /\ pc \in {"GATE_FAIL", "UNGROUNDED"}
     /\ context_block = << >>
     /\ prompt.template # "excerpts"

\* retrieve returned nothing and the threshold is below the score 0.0 that
\* on_text takes for an empty list; the general prompt was chosen
C5_Witness ==
  /\ pc = "UNGROUNDED"
  /\ candidates = << >>
  /\ cfg.MIN_BM25_SCORE < 0
  /\ prompt.template = "general"

\* C6: when the gate fails or the ranked list is empty, the context block
\* is the empty string and the general-knowledge prompt goes to the model;
\* the excerpt-carrying prompt is used only with a non-empty context block.
C6_GateFailMeansGeneralPrompt ==
  pc \in {"ASSEMBLED", "UNGROUNDED"} =>
     /\ (~(candidates # << >> /\ candidates[1].score >= cfg.MIN_BM25_SCORE)
           \/ ranked = << >>)
          => /\ context_block = << >>
             /\ prompt.template = "general"
             /\ prompt.context_block = << >>
     /\ prompt.template = "excerpts"
          => (context_block # << >> /\ prompt.context_block = context_block)

\* candidates with a positive top score below the threshold: no context
C6_Witness ==
  /\ pc = "UNGROUNDED"
  /\ candidates # << >>
  /\ candidates[1].score > 0
  /\ candidates[1].score < cfg.MIN_BM25_SCORE
  /\ prompt.template = "general"

\* C7: when the scoring call raises, rerank_candidates returns exactly
\* candidates[:top_k] in lexical order and no exception leaves it (on_text
\* goes on to the ranked list, not into its error handler).
C7_RerankFailsSoft ==
  [][(pc = "GATE_PASS" /\ RERANKER_MODEL # None /\ IsRaised(predicted'))
       => (pc' = "RANKED" /\ ranked' = Slice(candidates, RerankTopK))]_vars

\* the scoring call raised on more candidates than top_k
C7_Witness ==
  /\ pc = "RANKED"
  /\ RERANKER_MODEL # None
  /\ IsRaised(predicted)
  /\ Len(candidates) > RerankTopK
  /\ Len(ranked) = RerankTopK

\* C9: rerank_candidates returns at most top_k items, and the items carry
\* the chunks of distinct input candidates: nothing made up, none twice.
C9_RerankNoFabrication ==
  (pc = "RANKED" /\ RERANKER_MODEL # None) =>
     /\ Len(ranked) <= RerankTopK
     /\ \E f \in [1..Len(ranked) -> 1..Len(candidates)] :
          /\ \A r, t \in 1..Len(ranked) : f[r] = f[t] => r = t
          /\ \A r \in 1..Len(ranked) :
               ChunkOf(ranked[r]) = ChunkOf(candidates[f[r]])

\* the reranker cut the list and put another candidate first
C9_Witness ==
  /\ pc = "RANKED"
  /\ RERANKER_MODEL # None
  /\ ~IsRaised(predicted)
  /\ Len(ranked) = RerankTopK
  /\ Len(ranked) < Len(candidates)
  /\ ranked[1].id # candidates[1].id

\* C10: when the scoring call succeeds, rerank_candidates returns the top_k
\* candidates of highest rerank score, in non-increasing rerank score, and
\* candidates of equal rerank score keep their input order.
C10_RerankTopKStable ==
  (pc = "RANKED" /\ RERANKER_MODEL # None /\ ~IsRaised(predicted)) =>
     /\ Len(ranked) = Min(RerankTopK, Len(candidates))
     /\ \A r \in 1..Len(ranked) :
          /\ \E i \in 1..Len(candidates) : candidates[i].id = ranked[r].id
          /\ ranked[r].rerank_score = predicted.value[CandidateIndex(ranked[r].id)]
     /\ \A r \in 1..(Len(ranked) - 1) :
          \/ ranked[r].rerank_score > ranked[r + 1].rerank_score
          \/ /\ ranked[r].rerank_score = ranked[r + 1].rerank_score
             /\ CandidateIndex(ranked[r].id) < CandidateIndex(ranked[r + 1].id)
     /\ \A i \in 1..Len(candidates) :
          (\A r \in 1..Len(ranked) : ranked[r].id # candidates[i].id)
             => \A r \in 1..Len(ranked) :
                  \/ ranked[r].rerank_score > predicted.value[i]
                  \/ /\ ranked[r].rerank_score = predicted.value[i]
                     /\ CandidateIndex(ranked[r].id) < i

\* three candidates, the first of lowest rerank score, the other two tied:
\* the two tied ones are returned in their input order
C10_Witness ==
  /\ pc = "RANKED"
  /\ RERANKER_MODEL # None
  /\ ~IsRaised(predicted)
  /\ Len(candidates) = 3
  /\ Len(ranked) = 2
  /\ predicted.value[1] < predicted.value[2]
  /\ predicted.value[2] = predicted.value[3]
  /\ ranked[1].id = candidates[2].id
  /\ ranked[2].id = candidates[3].id

\* the docs of the stage-1 candidates of the last build_rag_prompt call
RagLexicalDocs ==
  [r \in 1..Len(rp_result.candidates) |-> rp_result.candidates[r].doc]

\* C8: in build_rag_prompt, when the reranking model is unavailable (no
\* checkpoint at load) or its scoring call fails, no exception reaches the
\* caller: the call returns a prompt built from the lexical candidates cut
\* to RERANK_TOPN in lexical order.
C8_RagPipelineFailsSoft ==
  (/\ rp_result # None
   /\ \/ ~ckpt_exists /\ _bm25 # None
      \/ IsRaised(rp_result.predicted))
  => /\ ~IsRaised(rp_result.outcome)
     /\ rp_result.top_docs = Slice(RagLexicalDocs, cfg.RERANK_TOPN)
     /\ rp_result.prompt.context_block = RagContext(rp_result.top_docs)

\* C11: the assembled context block is never longer than the context
\* character budget (3500 by default, the value of MAX_TOTAL_CHARS).
C11_ContextWithinBudget ==
  pc \in {"ASSEMBLED", "UNGROUNDED"} =>
     Len(context_block) <= cfg.MAX_TOTAL_CHARS

\* C13: when the index failed to load at startup, the process serves with
\* BM25 = None and DOCS = []: a query goes from RECEIVED to the fallback
\* prompt only, retrieve and the reranker are never called, and the only
\* error path entered is that of a failed model stream.
C13_NoIndexMeansFallback ==
  (started /\ (BM25 = None \/ IsRaised(load_index(index_file)))) =>
     /\ BM25 = None
     /\ DOCS = << >>
     /\ pc \in {"idle", "RECEIVED", "FALLBACK", "ERROR"}
     /\ candidates = << >>
     /\ ranked = << >>
     /\ predicted = None
     /\ context_block = << >>
     /\ prompt.template \in {"none", "concise"}
     /\ pc \in {"FALLBACK", "ERROR"} => prompt.template = "concise"

\* the artifact lacks a key, the load failed at import, and a query is
\* being answered through the fallback prompt
C13_Witness ==
  /\ started
  /\ index_file # None
  /\ IsRaised(load_index(index_file))
  /\ pc = "FALLBACK"
  /\ prompt.template = "concise"
  /\ prompt.user_text # << >>

\* C14: a load fails with a not-found error when there is no artifact and
\* with an error when the artifact lacks the chunk list or the lexical
\* model, and after a failed load no part of the index is in memory.
C14_FailedLoadLeavesNoIndex ==
  (rp_result # None /\ IsRaised(load_index(index_file))) =>
     /\ IsRaised(rp_result.outcome)
     /\ index_file = None
          => rp_result.outcome = Raised("FileNotFoundError: BM25 index")
     /\ _bm25 = None
     /\ _docs = << >>

\* C17: no step of a query changes the loaded index: the lexical model and
\* the chunk list are what load_index gave at startup, and every chunk has
\* the fields id, title and text only (no score, no rerank_score).
C17_IndexNotMutated ==
  (started /\ BM25 # None) =>
     /\ load_index(index_file) = Returned(<< BM25, DOCS >>)
     /\ \A i \in 1..Len(DOCS) : DOMAIN DOCS[i] = {"id", "title", "text"}

\* retrieve, the gate, a successful rerank and the assembly have all run
C17_Witness ==
  /\ pc = "ASSEMBLED"
  /\ RERANKER_MODEL # None
  /\ ~IsRaised(predicted)
  /\ predicted # None
  /\ Len(candidates) >= 2
  /\ prompt.template = "excerpts"

\* the records of the corpus whose text (or body) is not blank, in order
NonBlankRecords == SelectSeq(corpus, LAMBDA obj : ~StripIsEmpty(obj.text))

\* C18: for every corpus, load_index(build_index(corpus)) gives, in input
\* order, one chunk per record with non-blank text, with that record's id,
\* title and text, and retrieve on the loaded index ranks as retrieve on
\* the index that was pickled.
C18_BuildLoadRoundTrip ==
  build_result # None =>
     /\ ~IsRaised(build_result)
     /\ ~IsRaised(load_index(index_file))
     /\ load_index(index_file).value[2] = NonBlankRecords
     /\ \A q \in Queries : \A k \in 0..MaxTopK :
          retrieve(q, load_index(index_file).value[1],
                   load_index(index_file).value[2], k)
            = retrieve(q, build_index(corpus).bm25, build_index(corpus).docs, k)

\* C19: build_index does not raise: it skips the records whose text (or
\* body, when there is no text) is empty or blank, keeps every other
\* record, and returns the number of records kept.
C19_BuildSkipsBlankRecords ==
  build_result # None =>
     /\ ~IsRaised(build_result)
     /\ build_result.value = Len(NonBlankRecords)
     /\ pickle_load(index_file)["docs"] = NonBlankRecords

\* C20: the query-time tokenizer of rag_pipeline gives, on the query and
\* on every chunk text, the token list of retriever_bm25._tokenize, which
\* is the tokenizer build_index applied (the lexical model's document
\* lengths are the token counts).
C20_TokenizersAgree ==
  rp_result # None =>
     /\ _simple_tokenize(rp_result.query) = _tokenize(rp_result.query)
     /\ \A i \in 1..Len(_docs) :
          /\ _simple_tokenize(_docs[i].text) = _tokenize(_docs[i].text)
          /\ _bm25 # None
               => _bm25.doc_len[i] = Len(_simple_tokenize(_docs[i].text))

\* a prompt was built for a query with an upper-case letter and a run of
\* blanks, over a chunk with the same
C20_Witness ==
  /\ rp_result # None
  /\ ~IsRaised(rp_result.outcome)
  /\ rp_result.query = <<"a", " ", " ", "B">>
  /\ _tokenize(rp_result.query) = << <<"a">>, <<"b">> >>
  /\ \E i \in 1..Len(_docs) : _docs[i].text = <<"B", " ", " ", "b">>

\* C12: the reranker's scoring model is invoked only after the gate has
\* passed, never after a gate failure.  build_rag_prompt has no threshold
\* of its own, so the gate is taken at its most permissive: the scoring
\* call is made only on candidates that pass the gate for some threshold.
C12_RerankOnlyAfterGatePass ==
  (rp_result # None /\ rp_result.predicted # None) =>
     \E threshold \in Thresholds : GatePasses(rp_result.candidates, threshold)

\* C15: once the index is in memory no call deserializes the artifact
\* again, whatever the interleaving of the calling threads.
C15_IndexLoadedAtMostOnce ==
  [][(_bm25 # None /\ _docs # << >>) => pickle_loads' = pickle_loads]_vars

C21_BlankQueryNeverRetrieved ==
  pc \in {"LEXICAL_SCORED", "GATE_PASS", "GATE_FAIL", "RANKED",
          "ASSEMBLED", "UNGROUNDED"} => ~StripIsEmpty(user_text)

\* C22: rerank scores replace the lexical order and are never mixed with
\* the lexical scores: every ranked item carries the lexical score retrieve
\* gave its candidate, the candidate list is what retrieve returned, and
\* the gate decision (and the prompt that follows from it) is that of the
\* lexical candidates and the threshold alone, whatever the reranker
\* returned and whether or not there is one.
C22_RerankNeverMixedWithLexical ==
  pc \in {"GATE_PASS", "GATE_FAIL", "RANKED", "ASSEMBLED", "UNGROUNDED"} =>
     LET lexical == retrieve(user_text, BM25, DOCS, cfg.BM25_TOPK)
         passes  == GatePasses(lexical, cfg.MIN_BM25_SCORE)
     IN /\ candidates = lexical
        /\ pc \in {"GATE_PASS", "RANKED"} => passes
        /\ pc = "GATE_FAIL" => ~passes
        /\ pc \in {"ASSEMBLED", "UNGROUNDED"}
             => (prompt.template = "excerpts" <=> passes)
        /\ \A r \in 1..Len(ranked) :
             \E i \in 1..Len(lexical) :
                /\ ChunkOf(ranked[r]) = ChunkOf(lexical[i])
                /\ ranked[r].score = lexical[i].score

\* the reranker put a candidate of lower lexical score first, with a
\* rerank score that is not its lexical score, and the prompt was built
C22_Witness ==
  /\ pc = "ASSEMBLED"
  /\ RERANKER_MODEL # None
  /\ predicted # None
  /\ ~IsRaised(predicted)
  /\ ranked[1].id # candidates[1].id
  /\ ranked[1].score < candidates[1].score
  /\ ranked[1].rerank_score # ranked[1].score

\* C23: running without a reranker is a normal configuration: with
\* RERANKER_MODEL = None no scoring call is made, on_text reaches its error
\* handler only from a failed model stream (the prompt is built by then),
\* the ranked list is the lexical candidate list, and on gate pass the
\* context is the first MAX_CONTEXT_DOCS lexical candidates in lexical order.
C23_NoRerankerIsNormal ==
  (started /\ RERANKER_MODEL = None) =>
     /\ predicted = None
     /\ pc = "ERROR" => prompt.template \in {"excerpts", "general", "concise"}
     /\ pc \in {"RANKED", "ASSEMBLED"}
          => /\ ranked = candidates
             /\ GatePasses(candidates, cfg.MIN_BM25_SCORE)
     /\ pc = "ASSEMBLED"
          => /\ context_block
                  = ContextBlock(Slice(candidates, cfg.MAX_CONTEXT_DOCS))
             /\ prompt = [template      |-> "excerpts",
                          user_text     |-> user_text,
                          context_block |-> context_block]
     /\ pc = "UNGROUNDED" => ~GatePasses(candidates, cfg.MIN_BM25_SCORE)

\* no reranker, the gate passed on more candidates than MAX_CONTEXT_DOCS,
\* of differing lexical scores
C23_Witness ==
  /\ started
  /\ RERANKER_MODEL = None
  /\ pc = "ASSEMBLED"
  /\ Len(candidates) > cfg.MAX_CONTEXT_DOCS
  /\ candidates[1].score > candidates[Len(candidates)].score
  /\ prompt.template = "excerpts"

\* the terminal states of the pipeline: the context is in the prompt, or
\* the prompt is a general-knowledge one (that of a failed gate, or the
\* fallback one of a process without an index)
Terminal == {"ASSEMBLED", "UNGROUNDED", "FALLBACK"}

C25_NoMatchIsFloorInChunkOrder ==
  (/\ pc = "LEXICAL_SCORED"
   /\ \A i \in 1..Len(DOCS) : QueryTerms \cap ChunkTerms(DOCS[i]) = {})
  => /\ Len(candidates) = Min(cfg.BM25_TOPK, Len(DOCS))
     /\ \A r \in 1..Len(candidates) :
          /\ candidates[r].score = 0
          /\ ChunkOf(candidates[r]) = DOCS[r]

\* a query with a term, no chunk holds it, and retrieve has cut the list
C25_Witness ==
  /\ pc = "LEXICAL_SCORED"
  /\ QueryTerms # {}
  /\ \A i \in 1..Len(DOCS) : QueryTerms \cap ChunkTerms(DOCS[i]) = {}
  /\ Len(candidates) >= 2
  /\ Len(candidates) < Len(DOCS)
  /\ candidates[1].id # candidates[2].id

\* C26: in build_rag_prompt the stage-1 candidates stand in lexical score
\* descending with equal scores in original chunk order, so the stage-1
\* list is the list retrieve returns for the same query, index and top_k
\* (the same chunks with the same scores in the same order); and the
\* stage-2 docs stand in rerank score descending with equal scores in
\* stage-1 order.
C26_RagStage1EqualsRetrieve ==
  (rp_result # None /\ rp_result.candidates # << >>) =>
     LET hits == retrieve(rp_result.query, _bm25, _docs, cfg.BM25_TOPK)
     IN /\ Len(rp_result.candidates) = Len(hits)
        /\ \A r \in 1..Len(hits) :
             /\ rp_result.candidates[r].doc = ChunkOf(hits[r])
             /\ rp_result.candidates[r].score = hits[r].score
        /\ ~IsRaised(rp_result.outcome)
             => rp_result.top_docs
                  = LET order == SortedDesc(rp_result.predicted.value)
                    IN [r \in 1..Min(cfg.RERANK_TOPN, Len(hits)) |->
                          ChunkOf(hits[order[r]])]

\* the handlers.on_text calls in flight for this update at these positions
InFlight(u, pcs) ==
  Cardinality({h \in Handlers : /\ handler_calls[h].pc \in pcs
                                /\ UpdateOf(handler_calls[h]) = u})

C28_RerankReturnsMinTopK ==
  (app = "rerank_candidates" /\ pc = "RANKED") =>
     Len(ranked) = Min(RerankTopK, Len(candidates))

\* the concatenation of the strings of a list
RECURSIVE Concat(_)
Concat(parts) ==
  IF parts = << >> THEN << >> ELSE Head(parts) \o Concat(Tail(parts))

\* C29: after send_final has returned normally, the messages shown to the
\* user (the placeholder as last edited, then the follow-up messages in
\* send order) concatenate to exactly full_text, and each is at most
\* MAX_LEN characters long (and none is empty), for every full_text on_text
\* passes and every last_text edit_throttled has returned.
C29_FinalMessagesAreFullText ==
  chat_pc = "sent" =>
     /\ Concat(<< shown >> \o followups) = FullText
     /\ Len(shown) <= MAX_LEN /\ shown # << >>
     /\ \A k \in 1..Len(followups) :
          Len(followups[k]) <= MAX_LEN /\ followups[k] # << >>

\* a reply of three messages, after an edit that showed the end of the
\* buffer and not its start
C29_Witness ==
  /\ chat_pc = "sent"
  /\ Len(followups) = 2
  /\ Len(edits) >= 1
  /\ edits[Len(edits)].text # PySlice(FullText, 0, Len(edits[Len(edits)].text))

\* C30: over the edit_throttled calls for one message, with the returned
\* (last_edit_time, last_text) handed to the next call, two edits are
\* never sent less than min_interval apart, no edit is sent whose text is
\* the last text sent (the placeholder's text before the first edit), and
\* a call that sends nothing returns its last_edit_time and last_text
\* arguments unchanged.
C30_EditsThrottledAndDistinct ==
  /\ [](\A k \in 1..Len(edits) :
          /\ edits[k].text # (IF k = 1 THEN Ellipsis ELSE edits[k - 1].text)
          /\ k > 1 => edits[k].at - edits[k - 1].at >= min_interval)
  /\ [][(chat_pc = "streaming" /\ chat_pc' = "streaming" /\ edits' = edits)
          => (last_edit' = last_edit /\ last_text' = last_text)]_vars

\* two edits were sent, and the last call was suppressed by the interval
\* test: the buffer has grown past the text shown
C30_Witness ==
  /\ chat_pc = "streaming"
  /\ Len(edits) >= 2
  /\ Len(buffer) <= MAX_LEN
  /\ buffer # last_text
  /\ clock - last_edit < min_interval

=============================================================================
